---- MODULE Spec2Model ----
(***************************************************************************)
(* Model of the token catalog of token-search-mcp: the merge engine and    *)
(* CSV loader of src/src/tokenList.ts and the tool handlers of             *)
(* src/src/server.ts.                                                      *)
(*                                                                         *)
(* A JavaScript string is a sequence of one-character strings; the empty   *)
(* string is << >>.  A Token is a record.  An array is a sequence, and an  *)
(* index returned by findIndex/indexOf is 1-based, with 0 for the -1 of    *)
(* JavaScript.                                                             *)
(***************************************************************************)
EXTENDS Integers, Sequences, FiniteSets, TLC

VARIABLES
    mergedTokenList,  \* tokenList.ts:34, the catalog
    pc,               \* position of initializeTokenList
    idx,              \* index into TOKEN_LIST_CONFIG of the source being loaded
    loads,            \* history: what the environment answered for each source
    history,          \* history: the argument of every mergeTokenList call
    response          \* the last tool call: its arguments and what it returned

vars == <<mergedTokenList, pc, idx, loads, history, response>>

----------------------------------------------------------------------------
(* Strings                                                                 *)

\* absent optional string (logoURI?: string)
undefined == <<"<undefined>">>

\* absent optional array (tokenLists?: string[])
undefinedLists == <<"<undefined>">>

\* String.prototype.toLowerCase on one character
toLowerChar(c) ==
    CASE c = "A" -> "a"
      [] c = "B" -> "b"
      [] c = "C" -> "c"
      [] c = "F" -> "f"
      [] c = "L" -> "l"
      [] c = "N" -> "n"
      [] c = "U" -> "u"
      [] c = "X" -> "x"
      [] OTHER -> c

\* String.prototype.toLowerCase
toLowerCase(s) == [i \in 1..Len(s) |-> toLowerChar(s[i])]

\* String.prototype.includes: q occurs in s as a contiguous substring
includes(s, q) ==
    \E i \in 0..(Len(s) - Len(q)) : \A j \in 1..Len(q) : s[i + j] = q[j]

\* Array.prototype.includes on an array of list names
arrayIncludes(arr, x) == \E i \in 1..Len(arr) : arr[i] = x

\* JavaScript truthiness of an optional string
truthyStr(s) == s # undefined /\ s # << >>

\* JavaScript truthiness of a number
truthyNum(n) == n # 0

----------------------------------------------------------------------------
(* Merge engine                                                            *)

\* findIndex comparing the addresses as written, without lower-casing them
findIndex_caseSensitive(cat, token) ==
    LET hits == {i \in 1..Len(cat) :
                    /\ cat[i].address = token.address
                    /\ cat[i].chain = token.chain}
    IN  IF hits = {} THEN 0 ELSE CHOOSE i \in hits : \A j \in hits : i <= j

\* index of the first catalog Token with the identity of token, 0 when none
findIndex(cat, token) ==
    LET normalizedAddress == toLowerCase(token.address)
        hits == {i \in 1..Len(cat) :
                    /\ toLowerCase(cat[i].address) = normalizedAddress
                    /\ cat[i].chain = token.chain}
    IN  IF hits = {} THEN 0 ELSE CHOOSE i \in hits : \A j \in hits : i <= j

\* fillToken testing decimals for absence instead of falsiness
fillToken_strictDecimals(existingToken, token, listName) ==
    [existingToken EXCEPT
        !.name = IF ~truthyStr(@) /\ truthyStr(token.name) THEN token.name ELSE @,
        !.symbol = IF ~truthyStr(@) /\ truthyStr(token.symbol) THEN token.symbol ELSE @,
        !.logoURI = IF ~truthyStr(@) /\ truthyStr(token.logoURI) THEN token.logoURI ELSE @,
        !.tokenLists = IF @ = undefinedLists THEN <<listName>>
                       ELSE IF ~arrayIncludes(@, listName) THEN Append(@, listName)
                       ELSE @]

\* fillToken pushing the list name without the includes test
fillToken_alwaysPush(existingToken, token, listName) ==
    [existingToken EXCEPT
        !.name = IF ~truthyStr(@) /\ truthyStr(token.name) THEN token.name ELSE @,
        !.symbol = IF ~truthyStr(@) /\ truthyStr(token.symbol) THEN token.symbol ELSE @,
        !.decimals = IF ~truthyNum(@) /\ truthyNum(token.decimals) THEN token.decimals ELSE @,
        !.logoURI = IF ~truthyStr(@) /\ truthyStr(token.logoURI) THEN token.logoURI ELSE @,
        !.tokenLists = IF @ = undefinedLists THEN <<listName>> ELSE Append(@, listName)]

\* the else branch of the loop body: field fill and provenance
fillToken(existingToken, token, listName) ==
    [existingToken EXCEPT
        !.name = IF ~truthyStr(@) /\ truthyStr(token.name) THEN token.name ELSE @,
        !.symbol = IF ~truthyStr(@) /\ truthyStr(token.symbol) THEN token.symbol ELSE @,
        !.decimals = IF ~truthyNum(@) /\ truthyNum(token.decimals) THEN token.decimals ELSE @,
        !.logoURI = IF ~truthyStr(@) /\ truthyStr(token.logoURI) THEN token.logoURI ELSE @,
        !.tokenLists = IF @ = undefinedLists THEN <<listName>>
                       ELSE IF ~arrayIncludes(@, listName) THEN Append(@, listName)
                       ELSE @]

\* one iteration of the loop of mergeTokenList
mergeToken(cat, token, listName) ==
    LET existingTokenIndex == findIndex(cat, token)
    IN  IF existingTokenIndex = 0
        THEN Append(cat, [token EXCEPT !.tokenLists = <<listName>>])
        ELSE [cat EXCEPT ![existingTokenIndex] = fillToken(@, token, listName)]

RECURSIVE mergeTokens(_, _, _)
mergeTokens(cat, tokens, listName) ==
    IF tokens = << >> THEN cat
    ELSE mergeTokens(mergeToken(cat, Head(tokens), listName), Tail(tokens), listName)

\* mergeTokenList(newList) applied to the catalog cat
mergeTokenList(cat, newList) == mergeTokens(cat, newList.tokens, newList.name)

----------------------------------------------------------------------------
(* Source lists handed to mergeTokenList                                   *)

ChainType == {"bnb", "solana", "ton"}

\* the identity of a Token or of a raw record
Identity(t) == <<toLowerCase(t.address), t.chain>>

\* the records of the given lists, in order
RECURSIVE Flatten(_)
Flatten(lists) ==
    IF lists = << >> THEN << >>
    ELSE Head(lists).tokens \o Flatten(Tail(lists))

SeqsUpTo(S, n) == UNION {[1..k -> S] : k \in 0..n}

\* bounds on the merges: calls, records per list, records in all
MaxMerges == 3
MaxListLen == 2
MaxRecords == 3

\* addresses and chains of the raw records: one identity written in two
\* letter cases, and the same address on a second chain
MergeIdForms ==
    { [address |-> <<"a">>, chain |-> "bnb"],
      [address |-> <<"A">>, chain |-> "bnb"],
      [address |-> <<"a">>, chain |-> "solana"] }

\* field values of the raw records: every field has an empty value and two
\* different populated ones (logoURI: absent, empty and populated)
MergeProfiles ==
    { [name |-> << >>,    symbol |-> <<"F">>, decimals |-> 0, logoURI |-> undefined],
      [name |-> <<"v">>,  symbol |-> <<"B">>, decimals |-> 9, logoURI |-> <<"m">>],
      [name |-> <<"w">>,  symbol |-> << >>,   decimals |-> 6, logoURI |-> << >>] }

\* a raw Token as a source list carries it: no tokenLists yet
RawToken(idf, prof) ==
    [address |-> idf.address, chain |-> idf.chain, decimals |-> prof.decimals,
     logoURI |-> prof.logoURI, name |-> prof.name, symbol |-> prof.symbol,
     tokenLists |-> undefinedLists]

MergeTokens == {RawToken(idf, prof) : idf \in MergeIdForms, prof \in MergeProfiles}

ListNames == {"s1", "s2", "s3"}

MergeLists ==
    {[name |-> n, tokens |-> ts] : n \in ListNames, ts \in SeqsUpTo(MergeTokens, MaxListLen)}

NoResponse == [tool |-> "none"]

\* the state after `mergedTokenList = []` (tokenList.ts:67)
MergeInit ==
    /\ mergedTokenList = << >>
    /\ pc = "start"
    /\ idx = 0
    /\ loads = << >>
    /\ history = << >>
    /\ response = NoResponse

\* one call mergeTokenList(newList)
MergeList(newList) ==
    /\ mergedTokenList' = mergeTokenList(mergedTokenList, newList)
    /\ history' = Append(history, newList)
    /\ UNCHANGED <<pc, idx, loads, response>>

MergeNext ==
    \E newList \in MergeLists :
        /\ Len(history) < MaxMerges
        /\ Len(Flatten(history)) + Len(newList.tokens) <= MaxRecords
        /\ MergeList(newList)

MergeSpec == MergeInit /\ [][MergeNext]_vars

----------------------------------------------------------------------------
(* CSV loader                                                              *)

\* String.prototype.split on a one-character separator
RECURSIVE split(_, _)
split(s, sep) ==
    LET at == {i \in 1..Len(s) : s[i] = sep}
    IN  IF at = {} THEN <<s>>
        ELSE LET i == CHOOSE k \in at : \A j \in at : k <= j
             IN  <<SubSeq(s, 1, i - 1)>> \o split(SubSeq(s, i + 1, Len(s)), sep)

\* replace(/"/g, '')
removeQuotes(s) == SelectSeq(s, LAMBDA c : c # "\"")

isSpace(c) == c \in {" ", "\t", "\r", "\n"}

\* String.prototype.trim
RECURSIVE trimStart(_)
trimStart(s) == IF s # << >> /\ isSpace(Head(s)) THEN trimStart(Tail(s)) ELSE s

RECURSIVE trimEnd(_)
trimEnd(s) ==
    IF s # << >> /\ isSpace(s[Len(s)]) THEN trimEnd(SubSeq(s, 1, Len(s) - 1)) ELSE s

trim(s) == trimEnd(trimStart(s))

\* the quote-aware cell splitter, from character k of the row on
RECURSIVE splitRowFrom(_, _, _, _, _)
splitRowFrom(row, k, values, currentValue, insideQuotes) ==
    IF k > Len(row) THEN Append(values, currentValue)
    ELSE IF row[k] = "\"" THEN splitRowFrom(row, k + 1, values, currentValue, ~insideQuotes)
    ELSE IF row[k] = "," /\ ~insideQuotes
         THEN splitRowFrom(row, k + 1, Append(values, currentValue), << >>, insideQuotes)
    ELSE splitRowFrom(row, k + 1, values, Append(currentValue, row[k]), insideQuotes)

splitRow(row) == splitRowFrom(row, 1, << >>, << >>, FALSE)

\* Array.prototype.indexOf, 1-based, 0 when absent
indexOf(arr, x) ==
    LET at == {i \in 1..Len(arr) : arr[i] = x}
    IN  IF at = {} THEN 0 ELSE CHOOSE k \in at : \A j \in at : k <= j

isDigit(c) == c \in {"0", "1", "2", "3", "4", "5", "6", "7", "8", "9"}

digitValue(c) ==
    CASE c = "0" -> 0 [] c = "1" -> 1 [] c = "2" -> 2 [] c = "3" -> 3 [] c = "4" -> 4
      [] c = "5" -> 5 [] c = "6" -> 6 [] c = "7" -> 7 [] c = "8" -> 8 [] c = "9" -> 9

\* the value of the longest prefix of digits of s, having read acc so far
RECURSIVE digitsValue(_, _)
digitsValue(s, acc) ==
    IF s # << >> /\ isDigit(Head(s))
    THEN digitsValue(Tail(s), 10 * acc + digitValue(Head(s)))
    ELSE acc

\* parseInt(s, 10): leading white space, an optional sign, then digits
parseInt(s) ==
    LET t == trimStart(s)
        signed == t # << >> /\ Head(t) \in {"-", "+"}
        body == IF signed THEN Tail(t) ELSE t
    IN  IF body = << >> \/ ~isDigit(Head(body))
        THEN [isNaN |-> TRUE, value |-> 0]
        ELSE [isNaN |-> FALSE,
              value |-> IF signed /\ Head(t) = "-" THEN 0 - digitsValue(body, 0)
                        ELSE digitsValue(body, 0)]

H_token_address == <<"t", "o", "k", "e", "n", "_", "a", "d", "d", "r", "e", "s", "s">>
H_name == <<"n", "a", "m", "e">>
H_symbol == <<"s", "y", "m", "b", "o", "l">>
H_decimals == <<"d", "e", "c", "i", "m", "a", "l", "s">>
H_logo_uri == <<"l", "o", "g", "o", "_", "u", "r", "i">>
S_NULL == <<"N", "U", "L", "L">>

\* the decimals given to a row whose decimals cell is not a number
DefaultDecimals == 18

\* headers = rows[0].split(',').map(header => header.replace(/"/g, '').trim())
parseHeaders(row0) ==
    LET cells == split(row0, ",")
    IN  [i \in 1..Len(cells) |-> trim(removeQuotes(cells[i]))]

\* the four required columns are all in the header
hasRequiredColumns(headers) ==
    /\ indexOf(headers, H_token_address) > 0
    /\ indexOf(headers, H_name) > 0
    /\ indexOf(headers, H_symbol) > 0
    /\ indexOf(headers, H_decimals) > 0

\* the cells of a row that the loop body reads: values[i] is undefined, and
\* values[i].replace a TypeError, when the row has fewer than i cells
cellsRead(headers) ==
    {indexOf(headers, H_token_address), indexOf(headers, H_name),
     indexOf(headers, H_symbol), indexOf(headers, H_decimals)}
    \cup (IF indexOf(headers, H_logo_uri) > 0 THEN {indexOf(headers, H_logo_uri)} ELSE {})

\* the body of the row loop once the cells are split (tokenList.ts:186-211):
\* the Tokens it pushes, or the TypeError it throws
rowOutcome(headers, values, chain) ==
    IF ~hasRequiredColumns(headers) THEN [threw |-> FALSE, tokens |-> << >>]
    ELSE IF \E i \in cellsRead(headers) : i > Len(values)
         THEN [threw |-> TRUE, tokens |-> << >>]
    ELSE LET logoUriIndex == indexOf(headers, H_logo_uri)
             logoURI == IF logoUriIndex > 0 THEN removeQuotes(values[logoUriIndex])
                        ELSE undefined
             decimals == parseInt(removeQuotes(values[indexOf(headers, H_decimals)]))
         IN  [threw |-> FALSE,
              tokens |-> << [address |-> removeQuotes(values[indexOf(headers, H_token_address)]),
                             chain |-> chain,
                             decimals |-> IF decimals.isNaN THEN DefaultDecimals
                                          ELSE decimals.value,
                             logoURI |-> IF logoURI = S_NULL THEN undefined ELSE logoURI,
                             name |-> removeQuotes(values[indexOf(headers, H_name)]),
                             symbol |-> removeQuotes(values[indexOf(headers, H_symbol)]),
                             tokenLists |-> undefinedLists] >>]

\* the row loop from row i on (rows are 1-based: row 1 is the header)
RECURSIVE parseRows(_, _, _, _, _)
parseRows(rows, i, headers, chain, tokens) ==
    IF i > Len(rows) THEN [threw |-> FALSE, tokens |-> tokens]
    ELSE IF trim(rows[i]) = << >> THEN parseRows(rows, i + 1, headers, chain, tokens)
    ELSE LET r == rowOutcome(headers, splitRow(rows[i]), chain)
         IN  IF r.threw THEN [threw |-> TRUE, tokens |-> << >>]
             ELSE parseRows(rows, i + 1, headers, chain, tokens \o r.tokens)

\* parseCSVToTokenList: the TokenList, or threw when it raises
parseCSVToTokenList(csvContent, filename, chain) ==
    LET rows == split(csvContent, "\n")
        headers == parseHeaders(rows[1])
        parsed == parseRows(rows, 2, headers, chain, << >>)
    IN  [threw |-> parsed.threw,
         value |-> [name |-> filename, tokens |-> parsed.tokens]]

\* the null that loadTokenListFromCSV returns
Null == [name |-> "<null>", tokens |-> << >>]

\* The environment answers one source with an outcome: fetch rejects
\* ("fetchError"), the response is not ok ("notOk"), response.text() rejects
\* ("textError"), or the content arrives ("ok").

\* loadTokenListFromCSV without its try/catch: every failure propagates
loadTokenListFromCSV_noCatch(outcome, csvContent, filepath, chain) ==
    IF outcome # "ok" THEN [threw |-> TRUE, value |-> Null]
    ELSE parseCSVToTokenList(csvContent, filepath, chain)

\* loadTokenListFromCSV: the try block covers fetch, the status test, text()
\* and the parse, and the catch returns null
loadTokenListFromCSV(outcome, csvContent, filepath, chain) ==
    IF outcome # "ok" THEN [threw |-> FALSE, value |-> Null]
    ELSE LET parsed == parseCSVToTokenList(csvContent, filepath, chain)
         IN  IF parsed.threw THEN [threw |-> FALSE, value |-> Null]
             ELSE [threw |-> FALSE, value |-> parsed.value]

----------------------------------------------------------------------------
(* Initialization over the configured sources                              *)

TOKEN_LIST_CONFIG ==
    << [chain |-> "bnb",    path |-> "src/bnb1000.csv"],
       [chain |-> "solana", path |-> "src/solana1000.csv"],
       [chain |-> "ton",    path |-> "src/ton1000.csv"] >>

\* token_address,name,symbol,decimals,logo_uri
LineHeader == <<"t", "o", "k", "e", "n", "_", "a", "d", "d", "r", "e", "s", "s", ",", "n", "a", "m", "e", ",", "s", "y", "m", "b", "o", "l", ",", "d", "e", "c", "i", "m", "a", "l", "s", ",", "l", "o", "g", "o", "_", "u", "r", "i">>
\* "token_address", "name","symbol","decimals"
LineHeaderQuoted == <<"\"", "t", "o", "k", "e", "n", "_", "a", "d", "d", "r", "e", "s", "s", "\"", ",", " ", "\"", "n", "a", "m", "e", "\"", ",", "\"", "s", "y", "m", "b", "o", "l", "\"", ",", "\"", "d", "e", "c", "i", "m", "a", "l", "s", "\"">>
\* token_address,name,symbol,logo_uri
LineHeaderNoDecimals == <<"t", "o", "k", "e", "n", "_", "a", "d", "d", "r", "e", "s", "s", ",", "n", "a", "m", "e", ",", "s", "y", "m", "b", "o", "l", ",", "l", "o", "g", "o", "_", "u", "r", "i">>
\* a,ab,X,6,NULL
LineRowA == <<"a", ",", "a", "b", ",", "X", ",", "6", ",", "N", "U", "L", "L">>
\* A,,u,0,l
LineRowAUpper == <<"A", ",", ",", "u", ",", "0", ",", "l">>
\* "b","x,a",ab,N/A,l
LineRowB == <<"\"", "b", "\"", ",", "\"", "x", ",", "a", "\"", ",", "a", "b", ",", "N", "/", "A", ",", "l">>
\* c,u,x,9
LineRowC == <<"c", ",", "u", ",", "x", ",", "9">>
\* b,x
LineRowShort == <<"b", ",", "x">>
\* two blanks
LineBlank == <<" ", " ">>

\* the lines joined by line feeds
RECURSIVE joinLines(_)
joinLines(lines) ==
    IF lines = << >> THEN << >>
    ELSE IF Len(lines) = 1 THEN Head(lines)
    ELSE Head(lines) \o <<"\n">> \o joinLines(Tail(lines))

\* two complete rows, one with a quoted comma and a non-numeric decimals
\* cell, and a final line feed
FileGood == joinLines(<<LineHeader, LineRowA, LineRowB, << >> >>)
\* one identity twice, in two letter cases, around a blank line
FileDup == joinLines(<<LineHeader, LineRowAUpper, LineBlank, LineRowA>>)
\* a row of two cells between two complete rows
FileShort == joinLines(<<LineHeader, LineRowA, LineRowShort, LineRowB>>)
\* a quoted header without the optional column
FileQuoted == joinLines(<<LineHeaderQuoted, LineRowC, LineRowA>>)
\* a header without the decimals column
FileNoDecimals == joinLines(<<LineHeaderNoDecimals, LineRowA>>)

CsvFiles == {FileGood, FileDup, FileShort, FileQuoted, FileNoDecimals}

\* the state when the module tokenList.ts has been evaluated
Init ==
    /\ mergedTokenList = << >>
    /\ pc = "start"
    /\ idx = 0
    /\ loads = << >>
    /\ history = << >>
    /\ response = NoResponse

\* initializeTokenList up to its first suspension: the reset, and the fetch
\* of the first source is under way
InitializeBegin ==
    /\ pc = "start"
    /\ mergedTokenList' = << >>
    /\ pc' = "fetch"
    /\ idx' = 1
    /\ UNCHANGED <<loads, history, response>>

\* SourceSettled with a merge that yields after the first record of the
\* list, leaving the list partly merged where a tool call can run
SourceSettled_partialMerge(outcome, csvContent) ==
    LET config == TOKEN_LIST_CONFIG[idx]
        loaded == loadTokenListFromCSV(outcome, csvContent, config.path, config.chain)
        tokenList == loaded.value
    IN  /\ loads' = Append(loads, [outcome |-> outcome, content |-> csvContent])
        /\ IF loaded.threw
           THEN /\ pc' = "exited"
                /\ UNCHANGED <<mergedTokenList, idx, history>>
           ELSE /\ IF tokenList # Null
                   THEN /\ mergedTokenList' =
                               mergeTokens(mergedTokenList,
                                           IF tokenList.tokens = << >> THEN << >>
                                           ELSE <<Head(tokenList.tokens)>>,
                                           tokenList.name)
                        /\ history' = Append(history, tokenList)
                   ELSE UNCHANGED <<mergedTokenList, history>>
                /\ IF idx < Len(TOKEN_LIST_CONFIG)
                   THEN idx' = idx + 1 /\ pc' = "fetch"
                   ELSE idx' = idx /\ pc' = "done"
        /\ UNCHANGED response

\* the rest of one loop iteration, once the source has answered: the
\* TokenList or null comes back, it is merged, and the loop goes on
SourceSettled(outcome, csvContent) ==
    LET config == TOKEN_LIST_CONFIG[idx]
        loaded == loadTokenListFromCSV(outcome, csvContent, config.path, config.chain)
        tokenList == loaded.value
    IN  /\ loads' = Append(loads, [outcome |-> outcome, content |-> csvContent])
        /\ IF loaded.threw
           THEN /\ pc' = "exited"
                /\ UNCHANGED <<mergedTokenList, idx, history>>
           ELSE /\ IF tokenList # Null
                   THEN /\ mergedTokenList' = mergeTokenList(mergedTokenList, tokenList)
                        /\ history' = Append(history, tokenList)
                   ELSE UNCHANGED <<mergedTokenList, history>>
                /\ IF idx < Len(TOKEN_LIST_CONFIG)
                   THEN idx' = idx + 1 /\ pc' = "fetch"
                   ELSE idx' = idx /\ pc' = "done"
        /\ UNCHANGED response

\* await fetch(...) settles: a rejection or a non-ok status ends the load of
\* this source, an ok response goes on to response.text()
FetchSettled ==
    /\ pc = "fetch"
    /\ \E outcome \in {"fetchError", "notOk", "ok"} :
          IF outcome = "ok"
          THEN /\ pc' = "text"
               /\ UNCHANGED <<mergedTokenList, idx, loads, history, response>>
          ELSE SourceSettled(outcome, << >>)

\* await response.text() settles: a rejection, or the content, which is
\* parsed and merged
TextSettled ==
    /\ pc = "text"
    /\ \/ SourceSettled("textError", << >>)
       \/ \E csvContent \in CsvFiles : SourceSettled("ok", csvContent)

InitNext == InitializeBegin \/ FetchSettled \/ TextSettled

----------------------------------------------------------------------------
(* Query engine and tool handlers                                          *)

\* An array in a handler is a record: items, and ref telling whether it is
\* the catalog array itself ("catalog") or an array of its own ("fresh"),
\* which is what an in-place sort of it changes.

\* a tool argument that was omitted
NoChain == "<undefined>"
NoSearchType == "<undefined>"
NoLimit == << >>

\* the limit used when the argument is omitted
DefaultLimit == 1000

\* the array that Array.prototype.filter and the spread [...arr] return:
\* always a new array, holding the kept items
newArray(items) == [ref |-> "fresh", items |-> items]

\* getTokenList(): the catalog array itself
getTokenList(cat) == [ref |-> "catalog", items |-> cat]

\* getTokensByChain(chain)
getTokensByChain(cat, chain) ==
    newArray(SelectSeq(getTokenList(cat).items, LAMBDA token : token.chain = chain))

\* getTokenByAddress(address, chain): the first match, as a sequence of
\* length 0 (undefined) or 1
getTokenByAddress(cat, address, chain) ==
    LET at == findIndex(cat, [address |-> address, chain |-> chain])
    IN  IF at = 0 THEN << >> ELSE <<cat[at]>>

\* searchTokens comparing the fields as written, without lower-casing them
searchTokens_caseSensitive(cat, query, chain) ==
    LET normalizedQuery == toLowerCase(query)
        all == getTokenList(cat)
        filteredTokens ==
            IF chain # NoChain
            THEN newArray(SelectSeq(all.items, LAMBDA token : token.chain = chain))
            ELSE all
    IN  newArray(SelectSeq(filteredTokens.items,
                           LAMBDA token : \/ includes(token.symbol, normalizedQuery)
                                          \/ includes(token.name, normalizedQuery)))

\* searchTokens narrowing filteredTokens itself instead of returning the new
\* array of a final filter
searchTokens_sharedArray(cat, query, chain) ==
    LET normalizedQuery == toLowerCase(query)
        all == getTokenList(cat)
        filteredTokens ==
            IF chain # NoChain
            THEN newArray(SelectSeq(all.items, LAMBDA token : token.chain = chain))
            ELSE all
    IN  [ref |-> filteredTokens.ref,
         items |-> SelectSeq(filteredTokens.items,
                             LAMBDA token :
                                 \/ includes(toLowerCase(token.symbol), normalizedQuery)
                                 \/ includes(toLowerCase(token.name), normalizedQuery))]

\* searchTokens(query, chain?)
searchTokens(cat, query, chain) ==
    LET normalizedQuery == toLowerCase(query)
        all == getTokenList(cat)
        filteredTokens ==
            IF chain # NoChain
            THEN newArray(SelectSeq(all.items, LAMBDA token : token.chain = chain))
            ELSE all
    IN  newArray(SelectSeq(filteredTokens.items,
                           LAMBDA token :
                               \/ includes(toLowerCase(token.symbol), normalizedQuery)
                               \/ includes(toLowerCase(token.name), normalizedQuery)))

\* a.tokenLists?.length || 0
listCount(token) == IF token.tokenLists = undefinedLists THEN 0 ELSE Len(token.tokenLists)

\* the same comparator with its operands swapped
compareTokens_ascending(a, b) == listCount(a) - listCount(b)

\* the comparator of the handlers' sort: bCount - aCount
compareTokens(a, b) == listCount(b) - listCount(a)

\* x put into the sorted sequence behind every element that does not
\* compare after it
insertSorted(sorted, x) ==
    LET k == Cardinality({i \in 1..Len(sorted) : compareTokens(sorted[i], x) <= 0})
    IN  SubSeq(sorted, 1, k) \o <<x>> \o SubSeq(sorted, k + 1, Len(sorted))

\* Array.prototype.sort with compareTokens: a stable sort
RECURSIVE sortFrom(_, _)
sortFrom(sorted, rest) ==
    IF rest = << >> THEN sorted
    ELSE sortFrom(insertSorted(sorted, Head(rest)), Tail(rest))

sortTokens(items) == sortFrom(<< >>, items)

\* args.limit || 1000: an omitted limit and a limit of 0 are both falsy
effectiveLimit(limit) ==
    IF limit = NoLimit \/ limit[1] = 0 THEN DefaultLimit ELSE limit[1]

\* items.slice(0, end): a negative end counts from the end of the array
slice(items, end) ==
    LET n == Len(items)
        to == IF end < 0 THEN (IF n + end < 0 THEN 0 ELSE n + end)
              ELSE (IF end > n THEN n ELSE end)
    IN  SubSeq(items, 1, to)

\* the full-match filter of search-tokens
fullMatch(token, query) ==
    \/ toLowerCase(token.symbol) = toLowerCase(query)
    \/ toLowerCase(token.name) = toLowerCase(query)

\* the full-match filter of general-search
generalFullMatch(token, query) ==
    \/ toLowerCase(token.address) = toLowerCase(query)
    \/ toLowerCase(token.symbol) = toLowerCase(query)
    \/ toLowerCase(token.name) = toLowerCase(query)

\* the union loop of general-search pushing every name-or-symbol match
pushMissing_all(combinedTokens, nameOrSymbolTokens) == combinedTokens \o nameOrSymbolTokens

\* the union loop of general-search: a name-or-symbol match is pushed
\* unless combinedTokens has a Token of the same address and chain
RECURSIVE pushMissing(_, _)
pushMissing(combinedTokens, nameOrSymbolTokens) ==
    IF nameOrSymbolTokens = << >> THEN combinedTokens
    ELSE LET token == Head(nameOrSymbolTokens)
             found == \E i \in 1..Len(combinedTokens) :
                          /\ combinedTokens[i].address = token.address
                          /\ combinedTokens[i].chain = token.chain
         IN  pushMissing(IF found THEN combinedTokens ELSE Append(combinedTokens, token),
                         Tail(nameOrSymbolTokens))

\* what an in-place sort of arr leaves in the catalog
catalogAfterSort(cat, arr) == IF arr.ref = "catalog" THEN sortTokens(arr.items) ELSE cat

\* the tool get-token-by-address
GetTokenByAddressTool(address, chainArg) ==
    LET chain == IF chainArg = NoChain THEN "solana" ELSE chainArg
        token == getTokenByAddress(mergedTokenList, address, chain)
    IN  /\ response' = [tool |-> "get-token-by-address", address |-> address,
                        chain |-> chainArg, catalog |-> mergedTokenList,
                        isError |-> (token = << >>), tokens |-> token]
        /\ UNCHANGED <<mergedTokenList, pc, idx, loads, history>>

\* the tool search-tokens
SearchTokensTool(query, chainArg, searchTypeArg, limitArg) ==
    LET searchType == IF searchTypeArg = NoSearchType THEN "full-match" ELSE searchTypeArg
        limit == effectiveLimit(limitArg)
        found == searchTokens(mergedTokenList, query, chainArg)
        matchedTokens ==
            IF searchType = "full-match"
            THEN newArray(SelectSeq(found.items, LAMBDA token : fullMatch(token, query)))
            ELSE found
        sorted == sortTokens(matchedTokens.items)
        limitedResults == slice(sorted, limit)
    IN  /\ response' = [tool |-> "search-tokens", query |-> query, chain |-> chainArg,
                        searchType |-> searchTypeArg, limit |-> limitArg,
                        catalog |-> mergedTokenList,
                        matched |-> matchedTokens.items, ranked |-> sorted,
                        tokens |-> limitedResults, count |-> Len(limitedResults)]
        /\ mergedTokenList' = catalogAfterSort(mergedTokenList, matchedTokens)
        /\ UNCHANGED <<pc, idx, loads, history>>

\* the tool get-tokens-by-chain
GetTokensByChainTool(chain, limitArg) ==
    LET limit == effectiveLimit(limitArg)
        tokens == getTokensByChain(mergedTokenList, chain)
        limitedResults == slice(tokens.items, limit)
    IN  /\ response' = [tool |-> "get-tokens-by-chain", chain |-> chain, limit |-> limitArg,
                        catalog |-> mergedTokenList,
                        matched |-> tokens.items, ranked |-> tokens.items,
                        tokens |-> limitedResults, count |-> Len(limitedResults)]
        /\ UNCHANGED <<mergedTokenList, pc, idx, loads, history>>

\* the tool general-search
GeneralSearchTool(query, chainArg, searchTypeArg, limitArg) ==
    LET searchType == IF searchTypeArg = NoSearchType THEN "full-match" ELSE searchTypeArg
        limit == effectiveLimit(limitArg)
        allTokens == IF chainArg # NoChain THEN getTokensByChain(mergedTokenList, chainArg)
                     ELSE getTokenList(mergedTokenList)
        addressTokens ==
            newArray(SelectSeq(allTokens.items,
                               LAMBDA token :
                                   includes(toLowerCase(token.address), toLowerCase(query))))
        nameOrSymbolTokens ==
            newArray(SelectSeq(allTokens.items,
                               LAMBDA token :
                                   \/ includes(toLowerCase(token.name), toLowerCase(query))
                                   \/ includes(toLowerCase(token.symbol), toLowerCase(query))))
        union == newArray(pushMissing(addressTokens.items, nameOrSymbolTokens.items))
        combinedTokens ==
            IF searchType = "full-match"
            THEN newArray(SelectSeq(union.items,
                                    LAMBDA token : generalFullMatch(token, query)))
            ELSE union
        sorted == sortTokens(combinedTokens.items)
        limitedResults == slice(sorted, limit)
    IN  /\ response' = [tool |-> "general-search", query |-> query, chain |-> chainArg,
                        searchType |-> searchTypeArg, limit |-> limitArg,
                        catalog |-> mergedTokenList,
                        matched |-> combinedTokens.items, ranked |-> sorted,
                        tokens |-> limitedResults, count |-> Len(limitedResults)]
        /\ mergedTokenList' = catalogAfterSort(mergedTokenList, combinedTokens)
        /\ UNCHANGED <<pc, idx, loads, history>>

\* arguments of the tool calls
Queries == {<<"a">>, <<"A", "B">>}
QueryAddresses == {<<"A">>, <<"x">>}
ChainArgs == {NoChain, "bnb"}
SearchTypeArgs == {NoSearchType, "full-match", "partial-match"}
LimitArgs == {NoLimit, <<0>>, <<1>>}

\* one tool call, with query and limit drawn from the given sets
ToolCall(queries, limitArgs) ==
    \/ \E address \in QueryAddresses, chainArg \in ChainArgs :
          GetTokenByAddressTool(address, chainArg)
    \/ \E query \in queries, chainArg \in ChainArgs,
          searchTypeArg \in SearchTypeArgs, limitArg \in limitArgs :
          SearchTokensTool(query, chainArg, searchTypeArg, limitArg)
    \/ \E chain \in ChainArgs \ {NoChain}, limitArg \in limitArgs :
          GetTokensByChainTool(chain, limitArg)
    \/ \E query \in queries, chainArg \in ChainArgs,
          searchTypeArg \in SearchTypeArgs, limitArg \in limitArgs :
          GeneralSearchTool(query, chainArg, searchTypeArg, limitArg)

----------------------------------------------------------------------------
(* Tool calls over catalogs merged from arbitrary source lists             *)

MaxQueryMerges == 2

\* a raw record of the source lists queried below
QueryToken(address, chain, name, symbol) ==
    [address |-> address, chain |-> chain, decimals |-> DefaultDecimals,
     logoURI |-> undefined, name |-> name, symbol |-> symbol,
     tokenLists |-> undefinedLists]

\* the address holds the queries, name and symbol do not
TokenAB == QueryToken(<<"a", "b">>, "bnb", <<"x">>, <<"y">>)
\* name and symbol equal a query up to letter case
TokenC == QueryToken(<<"c">>, "bnb", <<"A", "b">>, <<"A">>)
\* the identity of TokenC in another letter case
TokenCUpper == QueryToken(<<"C">>, "bnb", << >>, <<"a", "b">>)
\* the name holds the queries without equalling one; another chain
TokenD == QueryToken(<<"d">>, "solana", <<"a", "b", "c">>, <<"z">>)
\* the address equals a query, the name holds it
TokenA == QueryToken(<<"a">>, "bnb", <<"x", "a">>, <<"q">>)

\* the source lists merged before and between the tool calls
QueryLists ==
    { [name |-> "s1", tokens |-> <<TokenC, TokenAB, TokenD>>],
      [name |-> "s2", tokens |-> <<TokenD, TokenCUpper, TokenA>>],
      [name |-> "s3", tokens |-> <<TokenA, TokenC>>] }

QueryNext ==
    \/ \E newList \in QueryLists : Len(history) < MaxQueryMerges /\ MergeList(newList)
    \/ ToolCall(Queries, LimitArgs)

QuerySpec == MergeInit /\ [][QueryNext]_vars

----------------------------------------------------------------------------
(* Properties of the merge engine, checked under MergeSpec                 *)

\* the raw records merged so far that have the identity of t, in merge order
RecordsOf(t) == SelectSeq(Flatten(history), LAMBDA r : Identity(r) = Identity(t))

\* C1: the catalog holds at most one Token per identity (address
\* lower-cased, chain): no two distinct entries agree on both.
C1_UniqueIdentity ==
    \A i, j \in 1..Len(mergedTokenList) :
        Identity(mergedTokenList[i]) = Identity(mergedTokenList[j]) => i = j

\* C1 witness: two merged records spell one identity in different letter
\* cases, a third record repeats an identity as written, and the catalog
\* holds a single Token for it.
C1_Witness ==
    /\ \E t \in 1..Len(mergedTokenList) :
          LET rs == RecordsOf(mergedTokenList[t])
          IN  /\ \E a, b \in 1..Len(rs) : rs[a].address # rs[b].address
              /\ \E a, b \in 1..Len(rs) : a # b /\ rs[a].address = rs[b].address
    /\ \E l \in 1..Len(history) :
          \E a, b \in 1..Len(history[l].tokens) :
              a # b /\ Identity(history[l].tokens[a]) = Identity(history[l].tokens[b])

\* the value a field ends with when vals are the values the merged records
\* gave it, in merge order: the first populated one, else the first one
RECURSIVE FirstPopulated(_, _, _)
FirstPopulated(vals, populated(_), first) ==
    IF vals = << >> THEN first
    ELSE IF populated(Head(vals)) THEN Head(vals)
    ELSE FirstPopulated(Tail(vals), populated, first)

FieldOf(rs, f) == [k \in 1..Len(rs) |-> rs[k][f]]

\* C2: field-fill rule.  Each of name, symbol, decimals and logoURI of a
\* catalog Token is the first populated value (non-empty; for decimals
\* non-zero) among the records merged for its identity, in merge order, and
\* the first record's value when none is populated: a populated field never
\* changes again, an empty one is filled by a later record, and decimals 0
\* counts as empty.
C2_FieldFill ==
    \A i \in 1..Len(mergedTokenList) :
        LET t == mergedTokenList[i]
            rs == RecordsOf(t)
        IN  /\ rs # << >>
            /\ t.name = FirstPopulated(FieldOf(rs, "name"), truthyStr, rs[1].name)
            /\ t.symbol = FirstPopulated(FieldOf(rs, "symbol"), truthyStr, rs[1].symbol)
            /\ t.decimals = FirstPopulated(FieldOf(rs, "decimals"), truthyNum, rs[1].decimals)
            /\ t.logoURI = FirstPopulated(FieldOf(rs, "logoURI"), truthyStr, rs[1].logoURI)

\* C2 witness: for one Token, the first record had decimals 0, an empty name
\* and a symbol; a later record brought other decimals, a name and another
\* symbol; the Token has the later decimals and name and the first symbol.
C2_Witness ==
    \E i \in 1..Len(mergedTokenList) :
        LET t == mergedTokenList[i]
            rs == RecordsOf(t)
        IN  /\ Len(rs) >= 2
            /\ rs[1].decimals = 0 /\ rs[2].decimals # 0 /\ t.decimals = rs[2].decimals
            /\ rs[1].name = << >> /\ rs[2].name # << >> /\ t.name = rs[2].name
            /\ rs[1].symbol # << >> /\ rs[2].symbol # << >>
            /\ rs[1].symbol # rs[2].symbol /\ t.symbol = rs[1].symbol

\* the names of seq in order of first occurrence
RECURSIVE FirstSeen(_)
FirstSeen(seq) ==
    IF seq = << >> THEN << >>
    ELSE LET rest == FirstSeen(SelectSeq(Tail(seq), LAMBDA n : n # Head(seq)))
         IN  <<Head(seq)>> \o rest

\* the merged lists that hold a record with the identity of t, in merge order
ListsOf(t) ==
    SelectSeq(history,
              LAMBDA l : \E k \in 1..Len(l.tokens) : Identity(l.tokens[k]) = Identity(t))

\* C3: provenance.  Every catalog Token's tokenLists has no duplicate and
\* is exactly the names of the merged lists that held a record with its
\* identity, in the order in which those lists were first merged.
C3_Provenance ==
    \A i \in 1..Len(mergedTokenList) :
        LET t == mergedTokenList[i]
            ls == ListsOf(t)
        IN  /\ t.tokenLists = FirstSeen([k \in 1..Len(ls) |-> ls[k].name])
            /\ \A a, b \in 1..Len(t.tokenLists) :
                   t.tokenLists[a] = t.tokenLists[b] => a = b

\* C3 witness: three lists of different names held one identity, and its
\* Token has a tokenLists of length 3.
C3_Witness ==
    \E i \in 1..Len(mergedTokenList) :
        /\ Len(mergedTokenList[i].tokenLists) = 3
        /\ Len(ListsOf(mergedTokenList[i])) = 3

----------------------------------------------------------------------------
(* Properties of the loader and of initialization, checked under Spec      *)

\* the source of load k parsed on its own, as the code parses it
ParsedLoad(k) ==
    parseCSVToTokenList(loads[k].content, TOKEN_LIST_CONFIG[k].path,
                        TOKEN_LIST_CONFIG[k].chain)

\* load k succeeded: the content arrived and parsing it raised nothing
LoadedOk(k) == loads[k].outcome = "ok" /\ ~ParsedLoad(k).threw

\* the merge, in declaration order, of the sources among the first n that
\* loaded successfully
RECURSIVE MergeOfLoaded(_)
MergeOfLoaded(n) ==
    IF n = 0 THEN << >>
    ELSE IF LoadedOk(n) THEN mergeTokenList(MergeOfLoaded(n - 1), ParsedLoad(n).value)
    ELSE MergeOfLoaded(n - 1)

\* C4: source-failure isolation.  A source whose load fails (fetch error,
\* non-success status, text or parse exception) never makes
\* initializeTokenList throw or stop; the catalog is at every moment the
\* merge, in declaration order, of the sources settled so far that loaded
\* successfully, and initialization completes only after all configured
\* sources have been tried.
C4_FailureIsolation ==
    /\ pc # "exited"
    /\ mergedTokenList = MergeOfLoaded(Len(loads))
    /\ pc = "done" => Len(loads) = Len(TOKEN_LIST_CONFIG)

\* C4 witness: initialization completed; the first source failed to parse,
\* the second was rejected, the third loaded, and its Tokens are the catalog.
C4_Witness ==
    /\ pc = "done"
    /\ loads[1].outcome = "ok" /\ ParsedLoad(1).threw
    /\ loads[2].outcome \in {"fetchError", "notOk", "textError"}
    /\ LoadedOk(3)
    /\ mergedTokenList # << >>

\* the cells of a data row as the quote-aware splitter yields them
RowValues(k, i) == splitRow(split(loads[k].content, "\n")[i])

\* the data rows of load k: the non-blank lines after the header
DataRows(k) ==
    {i \in 2..Len(split(loads[k].content, "\n")) :
        trim(split(loads[k].content, "\n")[i]) # << >>}

HeadersOf(k) == parseHeaders(split(loads[k].content, "\n")[1])

\* row i of load k has a value for every required column
RowComplete(k, i) ==
    /\ hasRequiredColumns(HeadersOf(k))
    /\ indexOf(HeadersOf(k), H_token_address) <= Len(RowValues(k, i))
    /\ indexOf(HeadersOf(k), H_name) <= Len(RowValues(k, i))
    /\ indexOf(HeadersOf(k), H_symbol) <= Len(RowValues(k, i))
    /\ indexOf(HeadersOf(k), H_decimals) <= Len(RowValues(k, i))

\* C5: row-level recovery.  When the content of a source arrived, a data
\* row lacking a value for a required column is skipped alone: the source
\* list is still returned and merged, and every data row that has the four
\* required values has its Token in the catalog.
C5_RowRecovery ==
    \A k \in 1..Len(loads) :
        loads[k].outcome = "ok" =>
            /\ \E h \in 1..Len(history) : history[h].name = TOKEN_LIST_CONFIG[k].path
            /\ \A i \in DataRows(k) :
                   RowComplete(k, i) =>
                       \E t \in 1..Len(mergedTokenList) :
                           /\ mergedTokenList[t].chain = TOKEN_LIST_CONFIG[k].chain
                           /\ toLowerCase(mergedTokenList[t].address)
                                  = toLowerCase(RowValues(k, i)[indexOf(HeadersOf(k), H_token_address)])

\* the identities of the Tokens of a catalog, in catalog order
Identities(cat) == [i \in 1..Len(cat) |-> Identity(cat[i])]

\* C11: tool calls run while initialization is suspended.  The catalog a
\* tool call reads is the in-order merge of the successfully loaded sources
\* among a prefix of the configured sources (none, sources 1..k, or all),
\* never a source list partly merged; and the catalog of every later moment
\* of the initialization, hence of every later call, holds the identities
\* the call saw, at the same positions.
C11_ObservedCatalogs ==
    response.tool # "none" =>
        /\ \E k \in 0..Len(loads) : response.catalog = MergeOfLoaded(k)
        /\ Len(response.catalog) <= Len(mergedTokenList)
        /\ Identities(response.catalog)
               = SubSeq(Identities(mergedTokenList), 1, Len(response.catalog))

\* C11 witness: a tool call read a catalog that held the Tokens of a first
\* source of two or more Tokens while a later source was still to come; that
\* source has since been merged, and initialization is complete.
C11_Witness ==
    /\ response.tool # "none"
    /\ pc = "done"
    /\ Len(response.catalog) >= 2
    /\ Len(mergedTokenList) > Len(response.catalog)
    /\ \E k \in 1..(Len(loads) - 1) :
          /\ response.catalog = MergeOfLoaded(k)
          /\ response.catalog # MergeOfLoaded(Len(loads))

----------------------------------------------------------------------------
(* Properties of the tool handlers, checked under QuerySpec                *)

\* the search type in force: full-match when the argument is omitted
InForce(searchTypeArg) ==
    IF searchTypeArg = NoSearchType THEN "full-match" ELSE searchTypeArg

OnChain(t, chainArg) == chainArg = NoChain \/ t.chain = chainArg

EqualsQuery(field, query) == toLowerCase(field) = toLowerCase(query)

HoldsQuery(field, query) == includes(toLowerCase(field), toLowerCase(query))

\* the position of a returned Token in the catalog the call read
CatalogIndex(t) ==
    CHOOSE i \in 1..Len(response.catalog) : Identity(response.catalog[i]) = Identity(t)

\* C6: search-tokens, before ranking and truncation, matches exactly the
\* catalog Tokens on the chain (all chains when none is given) whose symbol
\* or name equals the query case-insensitively under full-match (also the
\* default), or holds it as a substring under partial-match.
C6_MatchModes ==
    response.tool = "search-tokens" =>
        response.matched =
            SelectSeq(response.catalog,
                      LAMBDA t :
                          /\ OnChain(t, response.chain)
                          /\ IF InForce(response.searchType) = "full-match"
                             THEN \/ EqualsQuery(t.symbol, response.query)
                                  \/ EqualsQuery(t.name, response.query)
                             ELSE \/ HoldsQuery(t.symbol, response.query)
                                  \/ HoldsQuery(t.name, response.query))

\* C6 witness: a search-tokens call without searchType, whose query is in
\* upper case, matched a Token by its name in another case and left out a
\* Token of the catalog whose name merely holds the query.
C6_Witness ==
    /\ response.tool = "search-tokens"
    /\ response.searchType = NoSearchType
    /\ response.query = <<"A", "B">>
    /\ \E i \in 1..Len(response.matched) :
          /\ response.matched[i].name # response.query
          /\ EqualsQuery(response.matched[i].name, response.query)
    /\ \E i \in 1..Len(response.catalog) :
          /\ HoldsQuery(response.catalog[i].name, response.query)
          /\ \A j \in 1..Len(response.matched) : response.matched[j] # response.catalog[i]

\* the union that general-search builds: the Tokens whose address holds the
\* query, then the others whose name or symbol holds it, each in catalog order
GeneralUnion ==
    LET onChain == SelectSeq(response.catalog, LAMBDA t : OnChain(t, response.chain))
    IN  SelectSeq(onChain, LAMBDA t : HoldsQuery(t.address, response.query))
        \o SelectSeq(onChain,
                     LAMBDA t : /\ ~HoldsQuery(t.address, response.query)
                                /\ \/ HoldsQuery(t.name, response.query)
                                   \/ HoldsQuery(t.symbol, response.query))

\* C7 as claimed: under full-match every Token general-search returns has a
\* symbol or a name equal to the query case-insensitively.
C7_FullMatchNameOrSymbol ==
    (response.tool = "general-search" /\ InForce(response.searchType) = "full-match") =>
        \A i \in 1..Len(response.tokens) :
            \/ EqualsQuery(response.tokens[i].symbol, response.query)
            \/ EqualsQuery(response.tokens[i].name, response.query)

\* C7 amended: general-search takes the union of address-substring and
\* name/symbol-substring matches with no Token twice; under full-match it
\* keeps the Tokens of the union whose address, symbol or name equals the
\* query case-insensitively, and under partial-match the union passes
\* through unchanged.
C7_GeneralSearch ==
    response.tool = "general-search" =>
        /\ response.matched =
               SelectSeq(GeneralUnion,
                         LAMBDA t :
                             InForce(response.searchType) = "full-match" =>
                                 \/ EqualsQuery(t.address, response.query)
                                 \/ EqualsQuery(t.symbol, response.query)
                                 \/ EqualsQuery(t.name, response.query))
        /\ \A i, j \in 1..Len(response.matched) :
               Identity(response.matched[i]) = Identity(response.matched[j]) => i = j

\* C7 witness: a full-match general-search returned a Token whose address
\* equals the query while neither its name nor its symbol does, and a Token
\* matched by address and by name is returned once.
C7_Witness ==
    /\ response.tool = "general-search"
    /\ InForce(response.searchType) = "full-match"
    /\ \E i \in 1..Len(response.tokens) :
          /\ EqualsQuery(response.tokens[i].address, response.query)
          /\ ~EqualsQuery(response.tokens[i].name, response.query)
          /\ ~EqualsQuery(response.tokens[i].symbol, response.query)
          /\ HoldsQuery(response.tokens[i].name, response.query)

\* the ranked list is in descending order of tokenLists length
Descending(ranked) ==
    \A i, j \in 1..Len(ranked) :
        i < j => Len(ranked[i].tokenLists) >= Len(ranked[j].tokenLists)

\* Tokens of equal tokenLists length are in catalog order
TiesInCatalogOrder(ranked) ==
    \A i, j \in 1..Len(ranked) :
        (i < j /\ Len(ranked[i].tokenLists) = Len(ranked[j].tokenLists))
            => CatalogIndex(ranked[i]) < CatalogIndex(ranked[j])

\* C8 as claimed: search-tokens and general-search return the Tokens in
\* descending order of tokenLists length, Tokens of equal length in the
\* relative order they have in the catalog.
C8_RankingCatalogOrder ==
    response.tool \in {"search-tokens", "general-search"} =>
        /\ Descending(response.tokens)
        /\ TiesInCatalogOrder(response.tokens)

\* C8 amended: both tools return the Tokens in descending order of
\* tokenLists length.  Tokens of equal length keep catalog order in
\* search-tokens; in general-search they keep the order of the union:
\* Tokens whose address holds the query first, then the others, each group in
\* catalog order.
C8_Ranking ==
    /\ response.tool = "search-tokens" =>
          /\ Descending(response.ranked)
          /\ TiesInCatalogOrder(response.ranked)
    /\ response.tool = "general-search" =>
          /\ Descending(response.ranked)
          /\ \A i, j \in 1..Len(response.ranked) :
                (i < j /\ Len(response.ranked[i].tokenLists)
                             = Len(response.ranked[j].tokenLists))
                    => LET ai == HoldsQuery(response.ranked[i].address, response.query)
                           aj == HoldsQuery(response.ranked[j].address, response.query)
                       IN  \/ ai /\ ~aj
                           \/ /\ ai = aj
                              /\ CatalogIndex(response.ranked[i])
                                     < CatalogIndex(response.ranked[j])
    /\ response.tool \in {"search-tokens", "general-search"} =>
          \A i \in 1..Len(response.tokens) : response.tokens[i] = response.ranked[i]

\* C8 witness: a search-tokens call ranked a Token of two lists ahead of a
\* Token of one list that precedes it in the catalog, and returned two
\* Tokens of equal length after it.
C8_Witness ==
    /\ response.tool = "search-tokens"
    /\ \E i, j \in 1..Len(response.tokens) :
          /\ i < j
          /\ Len(response.tokens[i].tokenLists) > Len(response.tokens[j].tokenLists)
          /\ CatalogIndex(response.tokens[i]) > CatalogIndex(response.tokens[j])
    /\ \E i, j \in 1..Len(response.tokens) :
          /\ i < j
          /\ Len(response.tokens[i].tokenLists) = Len(response.tokens[j].tokenLists)

\* the smaller of two numbers
Min(a, b) == IF a < b THEN a ELSE b

\* C9: for every limit the caller supplies to search-tokens, general-search
\* or get-tokens-by-chain, the response holds exactly the first
\* min(limit, number of matches) entries of the ranked result, never more
\* than limit, and count is their number; the default applies only when
\* limit is omitted.
C9_Truncation ==
    response.tool \in {"search-tokens", "general-search", "get-tokens-by-chain"} =>
        LET n == IF response.limit = NoLimit THEN Min(DefaultLimit, Len(response.ranked))
                 ELSE Min(response.limit[1], Len(response.ranked))
        IN  /\ response.tokens = SubSeq(response.ranked, 1, n)
            /\ response.limit # NoLimit => Len(response.tokens) <= response.limit[1]
            /\ response.count = Len(response.tokens)

\* a step that is a tool call: initialization and the merges stand still
ToolStep == UNCHANGED <<pc, idx, loads, history>>

\* C10: no query operation mutates the catalog: across every tool call the
\* catalog has the same Tokens, with the same fields, in the same order.
C10_QueriesReadOnly == [][ToolStep => mergedTokenList' = mergedTokenList]_vars

\* C10 witness: a search-tokens call without a chain sorted its matches into
\* another order than the catalog's, and the catalog is as the call found it.
C10_Witness ==
    /\ response.tool = "search-tokens"
    /\ response.chain = NoChain
    /\ response.ranked # response.matched
    /\ response.catalog = mergedTokenList

\* the server takes tool calls once server.start has run, which is after
\* the synchronous start of initializeTokenList, and until the process exits
Next ==
    \/ InitNext
    \/ pc \notin {"start", "exited"} /\ ToolCall({<<"a">>}, {NoLimit})

Spec == Init /\ [][Next]_vars

====
